---------------------------- MODULE Spec2Model ----------------------------
(***************************************************************************)
(* A model of the Autonomous QA Agent: the FastAPI backend                 *)
(* (app/backend/main.py, rag.py, llm.py, app/utils/parsers.py) and the     *)
(* single-file Streamlit application (streamlit_app.py).                   *)
(*                                                                         *)
(* Text is a sequence of Unicode code points, uploaded content a sequence  *)
(* of bytes, a filename a sequence of one-character strings.  The vector   *)
(* store, the embedding model and the hosted LLM are external services:    *)
(* the store is a set of chunks persisted at a directory, a similarity     *)
(* search returns some k of them, and the LLM's answer is any of the       *)
(* outcomes a chain invocation can have.                                   *)
(***************************************************************************)
EXTENDS Integers, Sequences, FiniteSets, TLC

(***************************************************************************)
(* Python values and exceptions.                                           *)
(***************************************************************************)
NoneVal == "None"

Returned(v) == [raised |-> FALSE, exc |-> "", value |-> v]

Raised(e) == [raised |-> TRUE, exc |-> e, value |-> <<>>]

Min(S) == CHOOSE m \in S : \A o \in S : m <= o

Max(S) == 0 - Min({0 - x : x \in S})

\* F applied to the value of e: a local variable holding e, evaluated once.
With(e, F(_)) == CHOOSE out \in {F(v) : v \in {e}} : TRUE

With2(e1, e2, F(_, _)) == CHOOSE out \in {F(v1, v2) : v1 \in {e1}, v2 \in {e2}} : TRUE

\* str.endswith(suffix)
EndsWith(s, suffix) ==
    /\ Len(s) >= Len(suffix)
    /\ SubSeq(s, Len(s) - Len(suffix) + 1, Len(s)) = suffix

(***************************************************************************)
(* bytes.decode('utf-8') and bytes.decode('utf-8', errors='ignore').       *)
(***************************************************************************)
IsCont(b) == b >= 128 /\ b <= 191

\* The number of bytes a well-formed sequence led by byte b has (0: b is no lead byte).
Utf8Need(b) ==
    IF b < 128 THEN 1
    ELSE IF b >= 194 /\ b <= 223 THEN 2
    ELSE IF b >= 224 /\ b <= 239 THEN 3
    ELSE IF b >= 240 /\ b <= 244 THEN 4
    ELSE 0

\* Whether c may be the second byte after lead byte b (no overlong form, no surrogate,
\* nothing past U+10FFFF).
Utf8SecondOk(b, c) ==
    /\ IsCont(c)
    /\ (b = 224 => c >= 160)
    /\ (b = 237 => c <= 159)
    /\ (b = 240 => c >= 144)
    /\ (b = 244 => c <= 143)

\* How many bytes from position i on form a valid prefix of one encoded character
\* (0: the byte at i is no lead byte).
Utf8Prefix(bs, i) ==
    LET need == Utf8Need(bs[i])
        n == Len(bs)
        ok2 == need >= 2 /\ i + 1 <= n /\ Utf8SecondOk(bs[i], bs[i + 1])
        ok3 == ok2 /\ need >= 3 /\ i + 2 <= n /\ IsCont(bs[i + 2])
        ok4 == ok3 /\ need >= 4 /\ i + 3 <= n /\ IsCont(bs[i + 3])
    IN  IF need = 0 THEN 0
        ELSE IF ok4 THEN 4
        ELSE IF ok3 THEN 3
        ELSE IF ok2 THEN 2
        ELSE 1

Utf8CodePoint(bs, i, need) ==
    IF need = 1 THEN bs[i]
    ELSE IF need = 2 THEN (bs[i] - 192) * 64 + (bs[i + 1] - 128)
    ELSE IF need = 3
        THEN (bs[i] - 224) * 4096 + (bs[i + 1] - 128) * 64 + (bs[i + 2] - 128)
    ELSE (bs[i] - 240) * 262144 + (bs[i + 1] - 128) * 4096
            + (bs[i + 2] - 128) * 64 + (bs[i + 3] - 128)

RECURSIVE Utf8Decode(_, _, _, _)
\* The decoder's loop from byte i on, acc the text decoded so far.  An ill-formed
\* sequence raises under errors='strict' and is skipped under errors='ignore'.
Utf8Decode(bs, i, acc, ignore) ==
    IF i > Len(bs) THEN Returned(acc)
    ELSE With(Utf8Prefix(bs, i), LAMBDA have :
           IF have > 0 /\ have = Utf8Need(bs[i])
           THEN With2(i + have, Append(acc, Utf8CodePoint(bs, i, have)),
                      LAMBDA j, got : Utf8Decode(bs, j, got, ignore))
           ELSE IF ignore
           THEN With(i + (IF have = 0 THEN 1 ELSE have),
                     LAMBDA j : Utf8Decode(bs, j, acc, ignore))
           ELSE Raised("UnicodeDecodeError"))

decode_utf8(content) == Utf8Decode(content, 1, <<>>, FALSE)

decode_utf8_ignore(content) == Utf8Decode(content, 1, <<>>, TRUE)

(***************************************************************************)
(* json.loads and json.dumps(data, indent=2).  The JSON values of the      *)
(* model are arrays and non-negative integers: the uploaded texts are      *)
(* built from brackets, commas, digits, whitespace and characters that     *)
(* start no JSON value, so these are the only values a text can hold.      *)
(***************************************************************************)
JsonInt(n) == [t |-> "int", v |-> n, items |-> <<>>]

JsonList(items) == [t |-> "list", v |-> 0, items |-> items]

IsJsonWs(c) == c \in {32, 9, 10, 13}

IsDigit(c) == c >= 48 /\ c <= 57

\* The first position from i on that holds no JSON whitespace (Len(s) + 1: none).
SkipWs(s, i) == Min({j \in i..(Len(s) + 1) : j > Len(s) \/ ~IsJsonWs(s[j])})

\* The position after the run of digits that starts at i.
DigitsEnd(s, i) == Min({j \in i..(Len(s) + 1) : j > Len(s) \/ ~IsDigit(s[j])})

RECURSIVE DigitsValue(_, _, _, _)
\* int() of the digits at positions i..j-1, acc the value of those read so far.
DigitsValue(s, i, j, acc) ==
    IF i >= j THEN acc
    ELSE With2(i + 1, acc * 10 + (s[i] - 48), LAMBDA k, got : DigitsValue(s, k, j, got))

JsonFail == [ok |-> FALSE, val |-> JsonInt(0), end |-> 0]

JsonOk(val, end) == [ok |-> TRUE, val |-> val, end |-> end]

RECURSIVE JsonValue(_, _), JsonArrayItems(_, _, _)
\* The scanner's scan_once at position i: the value and the position after it.
JsonValue(s, i) ==
    IF i > Len(s) THEN JsonFail
    ELSE IF s[i] = 91
    THEN With(SkipWs(s, i + 1), LAMBDA j :
           IF j <= Len(s) /\ s[j] = 93
           THEN JsonOk(JsonList(<<>>), j + 1)
           ELSE JsonArrayItems(s, j, <<>>))
    ELSE IF s[i] = 48 THEN JsonOk(JsonInt(0), i + 1)
    ELSE IF IsDigit(s[i])
    THEN With(DigitsEnd(s, i), LAMBDA j : JsonOk(JsonInt(DigitsValue(s, i, j, 0)), j))
    ELSE JsonFail

\* JSONArray's loop: a value, then ']' or ',' and the next value.
JsonArrayItems(s, i, items) ==
    With(JsonValue(s, i), LAMBDA r :
      IF ~r.ok THEN JsonFail
      ELSE With2(SkipWs(s, r.end), Append(items, r.val), LAMBDA j, got :
             IF j > Len(s) THEN JsonFail
             ELSE IF s[j] = 93 THEN JsonOk(JsonList(got), j + 1)
             ELSE IF s[j] = 44
             THEN With(SkipWs(s, j + 1), LAMBDA k : JsonArrayItems(s, k, got))
             ELSE JsonFail))

json_loads(s) ==
    IF Len(s) > 0 /\ s[1] = 65279 THEN Raised("JSONDecodeError")
    ELSE With(JsonValue(s, SkipWs(s, 1)), LAMBDA r :
           IF r.ok /\ SkipWs(s, r.end) = Len(s) + 1
           THEN Returned(r.val)
           ELSE Raised("JSONDecodeError"))

RECURSIVE IntDigits(_)
\* str() of a non-negative integer
IntDigits(n) ==
    IF n < 10 THEN <<48 + n>>
    ELSE With(n \div 10, LAMBDA q : Append(IntDigits(q), 48 + (n % 10)))

Spaces(n) == [i \in 1..n |-> 32]

RECURSIVE JsonDumps(_, _, _), JsonDumpItems(_, _, _, _)
\* The encoder with indent spaces per level, at nesting depth level.
JsonDumps(val, indent, level) ==
    IF val.t = "int" THEN IntDigits(val.v)
    ELSE IF Len(val.items) = 0 THEN <<91, 93>>
    ELSE With(level + 1, LAMBDA inner :
           <<91>> \o JsonDumpItems(val.items, 1, indent, inner)
              \o <<10>> \o Spaces(indent * level) \o <<93>>)

JsonDumpItems(items, k, indent, level) ==
    IF k > Len(items) THEN <<>>
    ELSE With2(items[k], k + 1, LAMBDA item, next :
           (IF k > 1 THEN <<44>> ELSE <<>>) \o <<10>> \o Spaces(indent * level)
              \o JsonDumps(item, indent, level)
              \o JsonDumpItems(items, next, indent, level))

json_dumps(data, indent) == With(data, LAMBDA val : JsonDumps(val, indent, 0))

(***************************************************************************)
(* app/utils/parsers.py                                                    *)
(***************************************************************************)
parse_text(file_content) == decode_utf8(file_content)

parse_markdown(file_content) == decode_utf8(file_content)

parse_json(file_content) ==
    With(decode_utf8(file_content), LAMBDA text :
      IF text.raised THEN text
      ELSE With(json_loads(text.value), LAMBDA data :
             IF data.raised THEN data
             ELSE Returned(json_dumps(data.value, 2))))

\* A parse_html that would drop undecodable bytes instead of raising.
parse_html_lenient(file_content) == decode_utf8_ignore(file_content)

\* BeautifulSoup(file_content, 'html.parser') builds a tree that is not used.
parse_html(file_content) == decode_utf8(file_content)

ext_md == <<".", "m", "d">>

ext_txt == <<".", "t", "x", "t">>

ext_json == <<".", "j", "s", "o", "n">>

ext_html == <<".", "h", "t", "m", "l">>

parse_document(filename, content) ==
    IF EndsWith(filename, ext_md) THEN parse_markdown(content)
    ELSE IF EndsWith(filename, ext_txt) THEN parse_text(content)
    ELSE IF EndsWith(filename, ext_json) THEN parse_json(content)
    ELSE IF EndsWith(filename, ext_html) THEN parse_html(content)
    ELSE decode_utf8_ignore(content)

(***************************************************************************)
(* streamlit_app.py: its own copy of the document loader.                  *)
(***************************************************************************)
st_parse_document(filename, content) ==
    IF EndsWith(filename, ext_md) \/ EndsWith(filename, ext_txt)
    THEN decode_utf8(content)
    ELSE IF EndsWith(filename, ext_json)
    THEN With(decode_utf8(content), LAMBDA text :
           IF text.raised THEN text
           ELSE With(json_loads(text.value), LAMBDA data :
                  IF data.raised THEN data
                  ELSE Returned(json_dumps(data.value, 2))))
    ELSE IF EndsWith(filename, ext_html) THEN decode_utf8(content)
    ELSE decode_utf8_ignore(content)

(***************************************************************************)
(* RecursiveCharacterTextSplitter(chunk_size=1000, chunk_overlap=200,      *)
(* length_function=len), with the library's default separators.  A piece   *)
(* of a text is the range of positions it occupies.                        *)
(***************************************************************************)
chunk_size == 1000

chunk_overlap == 200

separators == << <<10, 10>>, <<10>>, <<32>>, <<>> >>

\* str.isspace() of one character
IsSpace(c) ==
    /\ c <= 32 \/ c >= 133
    /\ \/ c \in {9, 10, 11, 12, 13, 28, 29, 30, 31, 32, 133, 160, 5760}
       \/ (c >= 8192 /\ c <= 8202)
       \/ c \in {8232, 8233, 8239, 8287, 12288}

Range(lo, hi) == [lo |-> lo, hi |-> hi]

RangeLen(r) == r.hi - r.lo + 1

RangeText(text, r) == SubSeq(text, r.lo, r.hi)

MatchAt(text, i, sep) == \A k \in 1..Len(sep) : text[i + k - 1] = sep[k]

\* re.search(separator, text) on the piece r
Occurs(text, r, sep) == \E i \in r.lo..(r.hi - Len(sep) + 1) : MatchAt(text, i, sep)

RECURSIVE MatchStarts(_, _, _, _)
\* Where re.split finds the separator in positions from..hi: leftmost first, no two
\* matches overlapping.
MatchStarts(text, from, hi, sep) ==
    IF Len(sep) = 1 THEN {i \in from..hi : text[i] = sep[1]}
    ELSE With({i \in from..(hi - Len(sep) + 1) : MatchAt(text, i, sep)}, LAMBDA c :
           IF c = {} THEN {}
           ELSE With(Min(c), LAMBDA first :
                  With(first + Len(sep), LAMBDA next :
                    {first} \cup MatchStarts(text, next, hi, sep))))

RECURSIVE PiecesFrom(_, _, _)
\* The pieces that begin at the positions starts, from the lowest on, the last one
\* ending at hi.
PiecesFrom(starts, hi, pieces) ==
    IF starts = {} THEN pieces
    ELSE With(Min(starts), LAMBDA lo :
           With(starts \ {lo}, LAMBDA rest :
             With(Append(pieces, Range(lo, IF rest = {} THEN hi ELSE Min(rest) - 1)),
                  LAMBDA got : PiecesFrom(rest, hi, got))))

\* _split_text_with_regex(text, separator, keep_separator=True): the separator stays at
\* the start of the piece after it; the empty pieces are dropped.  With the separator
\* "" the pieces are the characters.
Pieces(text, r, sep) ==
    IF sep = <<>> THEN [i \in 1..RangeLen(r) |-> Range(r.lo + i - 1, r.lo + i - 1)]
    ELSE With({r.lo} \cup MatchStarts(text, r.lo, r.hi, sep), LAMBDA starts :
           PiecesFrom(starts, r.hi, <<>>))

\* The length of splits a+1..b joined (keep_separator: they are joined with "").
Total(splits, a, b) == IF a >= b THEN 0 ELSE splits[b].hi - splits[a + 1].lo + 1

\* A _join_docs that would not strip the joined text.
JoinDocsUnstripped(text, splits, a, b) ==
    IF a >= b THEN <<>> ELSE <<Range(splits[a + 1].lo, splits[b].hi)>>

\* _join_docs of splits a+1..b: joined, stripped, and None (no chunk) when empty.
JoinDocs(text, splits, a, b) ==
    IF a >= b THEN <<>>
    ELSE With({i \in splits[a + 1].lo..splits[b].hi : ~IsSpace(text[i])}, LAMBDA inner :
           IF inner = {} THEN <<>> ELSE <<Range(Min(inner), Max(inner))>>)

RECURSIVE MergeSplits(_, _, _, _, _)
\* _merge_splits, its loop advanced from one emitted chunk to the next: current_doc is
\* splits a+1..b and docs the chunks emitted so far.  Splits are appended until the next
\* one would take the total past chunk_size; then current_doc is emitted and splits are
\* popped from its front while the total exceeds chunk_overlap, or the next split still
\* does not fit.
MergeSplits(text, splits, a, b, docs) ==
    With2(Len(splits),
          Min({j \in b..Len(splits) :
                 j = Len(splits) \/ Total(splits, a, j + 1) > chunk_size}),
          LAMBDA m, full :
      IF full = m THEN docs \o JoinDocs(text, splits, a, m)
      ELSE With(full + 1, LAMBDA next :
             IF a < full
             THEN With2(Min({x \in a..full :
                               ~ \/ Total(splits, x, full) > chunk_overlap
                                 \/ (Total(splits, x, full) + RangeLen(splits[next]) > chunk_size
                                      /\ Total(splits, x, full) > 0)}),
                        docs \o JoinDocs(text, splits, a, full),
                        LAMBDA kept, got : MergeSplits(text, splits, kept, next, got))
             ELSE MergeSplits(text, splits, a, next, docs)))

RECURSIVE SplitText(_, _, _), SplitLoop(_, _, _, _, _)
\* _split_text(text, separators) on the piece r: the chunks, as ranges of the text.
SplitText(text, r, seps) ==
    With({i \in 1..Len(seps) : seps[i] = <<>> \/ Occurs(text, r, seps[i])}, LAMBDA found :
      With(IF found = {} THEN Len(seps) ELSE Min(found), LAMBDA at :
        With2(Pieces(text, r, seps[at]),
              IF found = {} \/ seps[at] = <<>> THEN <<>> ELSE SubSeq(seps, at + 1, Len(seps)),
              LAMBDA splits, new_separators :
                SplitLoop(text, splits, 1, new_separators, <<>>))))

\* The loop of _split_text over its splits from the k-th on: the splits shorter than
\* chunk_size gather in _good_splits and are merged; a split that is not is split again
\* with the separators left, or kept whole when none is left.
SplitLoop(text, splits, k, new_separators, final_chunks) ==
    With({j \in k..Len(splits) : RangeLen(splits[j]) >= chunk_size}, LAMBDA long :
      With(IF long = {} THEN Len(splits) + 1 ELSE Min(long), LAMBDA stop :
        With(SubSeq(splits, k, stop - 1), LAMBDA good :
          With(final_chunks \o (IF Len(good) = 0 THEN <<>>
                                ELSE MergeSplits(text, good, 0, 0, <<>>)),
               LAMBDA merged :
            IF long = {} THEN merged
            ELSE With2(stop + 1,
                       merged \o (IF Len(new_separators) = 0 THEN <<splits[stop]>>
                                  ELSE SplitText(text, splits[stop], new_separators)),
                       LAMBDA next, got :
                         SplitLoop(text, splits, next, new_separators, got))))))

\* split_text(text): the chunks of a text, in order
split_text(text) ==
    IF Len(text) = 0 THEN <<>> ELSE SplitText(text, Range(1, Len(text)), separators)

\* str.find(sub, start): the lowest 0-based index from start on where sub occurs, or -1
Find(text, sub, start) ==
    With({p \in start..(Len(text) - Len(sub)) : \A k \in 1..Len(sub) : text[p + k] = sub[k]},
         LAMBDA at : IF at = {} THEN -1 ELSE Min(at))

\* A Document whose content would be rewritten on construction (here: every
\* character moved by one).
DocumentAltered(page_content, metadata) ==
    [page_content |-> [i \in 1..Len(page_content) |-> page_content[i] + 1],
     metadata |-> metadata]

Document(page_content, metadata) == [page_content |-> page_content, metadata |-> metadata]

RECURSIVE CreateDocuments(_, _, _, _, _, _, _)
\* create_documents for one text: a Document per chunk with the text's metadata and,
\* with add_start_index, the index where the chunk is found in the text, searched from
\* the previous chunk's index + its length - chunk_overlap.
CreateDocuments(text, source, add_start_index, chunks, k, index, previous_chunk_len) ==
    IF k > Len(chunks) THEN <<>>
    ELSE With2(RangeText(text, chunks[k]), index + previous_chunk_len - chunk_overlap,
               LAMBDA chunk, offset :
           IF add_start_index
           THEN With2(Find(text, chunk, IF offset > 0 THEN offset ELSE 0), k + 1,
                      LAMBDA found, next :
                  With(Len(chunk), LAMBDA chunk_len :
                    <<Document(chunk, [source |-> source, start_index |-> found])>>
                      \o CreateDocuments(text, source, add_start_index, chunks, next,
                                         found, chunk_len)))
           ELSE With(k + 1, LAMBDA next :
                  <<Document(chunk, [source |-> source])>>
                    \o CreateDocuments(text, source, add_start_index, chunks, next,
                                       index, previous_chunk_len)))

RECURSIVE split_documents(_, _, _)
\* split_documents(docs): the chunks of every document, in the documents' order
split_documents(docs, k, add_start_index) ==
    IF k > Len(docs) THEN <<>>
    ELSE With2(docs[k], k + 1, LAMBDA doc, next :
           With(split_text(doc.page_content), LAMBDA chunks :
             CreateDocuments(doc.page_content, doc.metadata.source, add_start_index,
                             chunks, 1, 0, 0)
               \o split_documents(docs, next, add_start_index)))

VARIABLES
    program,          \* "backend" | "streamlit" | a pure function under check
    chroma_dir,       \* backend: the directory data/chroma and the chunks persisted in it
    vector_db,        \* backend: rag.vector_db, None or a Chroma handle on data/chroma
    llm,              \* backend: llm_service.llm, None or the ChatOpenAI client
    requests,         \* backend: the requests in service, by the thread serving each
    st_chroma_dir,    \* streamlit: the directory ./chroma_db
    st_vector_db,     \* streamlit: st.session_state.vector_db
    st_llm,           \* streamlit: st.session_state.llm
    st_api_key,       \* streamlit: the value of the API-key text input
    st_html_content,  \* streamlit: st.session_state.html_content
    st_test_cases,    \* streamlit: st.session_state.test_cases (absent, None or a list)
    next_id,          \* the next id the vector store gives a document added to it
    clear_mark,       \* history: next_id when the knowledge base was last cleared
    response,         \* the outcome of the last request or user action
    fn_input,         \* the input of the pure function under check
    fn_output         \* its result

vars == <<program, chroma_dir, vector_db, llm, requests, st_chroma_dir, st_vector_db, st_llm,
          st_api_key, st_html_content, st_test_cases, next_id, clear_mark, response,
          fn_input, fn_output>>

backend_vars == <<chroma_dir, vector_db, llm, requests>>

st_vars == <<st_chroma_dir, st_vector_db, st_llm, st_api_key, st_html_content, st_test_cases>>

fn_vars == <<fn_input, fn_output>>

(***************************************************************************)
(* Bounds of the model.                                                    *)
(***************************************************************************)
\* documents the vector store is given ids for in one run
MaxDocs == 2

\* files in one upload
MaxFiles == 2

(***************************************************************************)
(* Inputs.                                                                 *)
(***************************************************************************)
UploadFile(filename, content) == [filename |-> filename, content |-> content]

name_a_txt == <<"a", ".", "t", "x", "t">>

name_p_html == <<"p", ".", "h", "t", "m", "l">>

name_bad_json == <<"b", "a", "d", ".", "j", "s", "o", "n">>

name_e_md == <<"e", ".", "m", "d">>

name_ghost_md == <<"g", "h", "o", "s", "t", ".", "m", "d">>

\* The files a user uploads: a text, a page, a .json file that is no JSON, and an
\* empty file (no chunk).
UploadFiles ==
    { UploadFile(name_a_txt, <<97>>),
      UploadFile(name_p_html, <<60, 98, 62>>),
      UploadFile(name_bad_json, <<91>>),
      UploadFile(name_e_md, <<>>) }

SeqsUpTo(S, n) == UNION {[1..k -> S] : k \in 0..n}

UploadRequests == SeqsUpTo(UploadFiles, MaxFiles) \ {<<>>}

Queries == {"discount code"}

\* The source filenames a generated test case may cite: the model is free to cite a
\* file that was never uploaded.
CitedNames == {name_a_txt, name_p_html, name_ghost_md}

TestCase(grounded_in) == [grounded_in |-> grounded_in]

\* What chain.invoke of prompt | llm | JsonOutputParser() can do: raise (the request to
\* the hosted model fails), fail to parse the model's text, or return the parsed JSON,
\* an object with a list "test_cases" or some other JSON value.
TestCaseOutcomes ==
    { [kind |-> "llm_raised", test_cases |-> <<>>],
      [kind |-> "unparsable_output", test_cases |-> <<>>],
      [kind |-> "other_json", test_cases |-> <<>>] }
    \cup { [kind |-> "test_plan", test_cases |-> tcs] :
             tcs \in {<<>>} \cup {<<TestCase(n)>> : n \in CitedNames} }

\* What chain.invoke of prompt | llm | StrOutputParser() can do.
ScriptOutcomes == {"llm_raised", "script"}

(***************************************************************************)
(* The vector store (langchain_community.vectorstores.Chroma): a handle    *)
(* on the collection persisted at a directory.                             *)
(***************************************************************************)
NoDir == [exists |-> FALSE, docs |-> {}]

Dir(docs) == [exists |-> TRUE, docs |-> docs]

NoHandle == [none |-> TRUE, opened_by |-> ""]

\* Chroma(persist_directory=..., ...): opened_by names the code that made the handle.
Handle(opened_by) == [none |-> FALSE, opened_by |-> opened_by]

\* The truth values `if self.vector_db:` may find.  None is false.  Python takes the
\* truth of an object from its __bool__ or __len__: a Chroma store is true where the
\* installed library gives the class neither, and where it defines __len__ as the
\* number of stored documents a store is false while its collection is empty.
StoreTruth(db, dir) ==
    IF db.none THEN {FALSE}
    ELSE IF dir.docs = {} THEN {TRUE, FALSE}
    ELSE {TRUE}

\* Opening a client on a directory creates it when missing and loads what it holds.
ChromaOpen(dir) == Dir(dir.docs)

\* add_documents: every document is stored under a fresh id.
Stored(chunks, id) ==
    { [id |-> id + k - 1, page_content |-> chunks[k].page_content,
       metadata |-> chunks[k].metadata] : k \in 1..Len(chunks) }

\* similarity_search(query, k) on a collection: its k nearest documents, all of them
\* when it holds fewer; which are nearest is the embedding model's matter.
SimilaritySearch(docs, k) ==
    {R \in SUBSET docs : Cardinality(R) = IF Cardinality(docs) < k THEN Cardinality(docs) ELSE k}

(***************************************************************************)
(* The outcome of a request or user action, as the caller sees it.         *)
(*   raised     an exception left the handler                              *)
(*   failure    what failed while serving it ("" when nothing did)         *)
(*   error_as   how the failure reached the caller: "str" (a plain error   *)
(*              string), "dict" (an {"error": ...} object), "exception",   *)
(*              "message" (a notice of the user interface)                 *)
(*   retrieved  the documents retrieve_context returned                    *)
(*   test_cases the test cases of the answer                               *)
(*   count      the chunk count an ingestion reported                      *)
(*   handle     the vector_db handle the request read                      *)
(*   dropped    the sources of the documents an upload had parsed when an  *)
(*              exception left it                                          *)
(***************************************************************************)
NotRead == [none |-> TRUE, opened_by |-> "not read"]

Response(op, raised, failure, error_as, retrieved, test_cases, count, handle) ==
    [op |-> op, raised |-> raised, failure |-> failure, error_as |-> error_as,
     retrieved |-> retrieved, test_cases |-> test_cases, count |-> count, handle |-> handle,
     dropped |-> <<>>]

NoResponse == Response("none", FALSE, "", "", {}, <<>>, 0, NotRead)

(***************************************************************************)
(* The requests in service.  FastAPI runs the coroutine endpoint           *)
(* (upload_files) on the event loop and each plain endpoint                *)
(* (generate_test_cases, generate_script, clear_knowledge_base) on a       *)
(* thread of its pool, so the three kinds share rag.vector_db and the      *)
(* directory while being served.  ingest_documents has no await in it:     *)
(* uploads do not interleave with one another inside it.                   *)
(*   op            the endpoint ("idle" when the thread serves none)       *)
(*   pc            the call of rag.py the request is about to make         *)
(*   chunks        ingest_documents: its local chunks                      *)
(*   context_docs  what retrieve_context returned                          *)
(*   handle        the last value of self.vector_db the request read       *)
(*   served        the requests the thread has served to their end         *)
(***************************************************************************)
Threads == {"event_loop", "worker_1", "worker_2"}

\* requests one thread serves while requests are in service at once
MaxServed == 1

Request(op, pc, chunks, context_docs, handle, served) ==
    [op |-> op, pc |-> pc, chunks |-> chunks, context_docs |-> context_docs,
     handle |-> handle, served |-> served]

Idle(served) == Request("idle", "", <<>>, {}, NotRead, served)

\* the thread is free to take a request
Free(request) == request.op = "idle" /\ request.served < MaxServed

NoRequests == [t \in Threads |-> Idle(0)]

(***************************************************************************)
(* app/backend/rag.py: RAGPipeline                                         *)
(***************************************************************************)
\* A _load_db that would open the store only when its directory is there.
load_db_only_existing(dir, caller) ==
    IF dir.exists
    THEN [chroma_dir |-> ChromaOpen(dir), vector_db |-> Handle(caller)]
    ELSE [chroma_dir |-> dir, vector_db |-> NoHandle]

\* _load_db: both branches open a Chroma handle on CHROMA_PATH.
load_db(dir, caller) ==
    IF dir.exists
    THEN [chroma_dir |-> ChromaOpen(dir), vector_db |-> Handle(caller)]
    ELSE [chroma_dir |-> ChromaOpen(dir), vector_db |-> Handle(caller)]

\* An ingest_documents that would replace the chunks stored for a filename it is given
\* again.
ingest_documents_replacing(documents, db, dir, id, truth) ==
    With(split_documents([k \in 1..Len(documents) |->
                             Document(documents[k].content, [source |-> documents[k].source])],
                         1, TRUE),
         LAMBDA chunks :
      IF Len(chunks) > 0
      THEN [vector_db |-> IF truth THEN db ELSE Handle("ingest_documents"),
            chroma_dir |->
                Dir({d \in dir.docs :
                        \A k \in 1..Len(chunks) : chunks[k].metadata.source # d.metadata.source}
                      \cup Stored(chunks, id)),
            count |-> Len(chunks), next_id |-> id + Len(chunks), read |-> db]
      ELSE [vector_db |-> db, chroma_dir |-> dir, count |-> 0, next_id |-> id,
            read |-> NotRead])

\* An ingest_documents that would report the number of documents it was given.
ingest_documents_counting_documents(documents, db, dir, id, truth) ==
    With(split_documents([k \in 1..Len(documents) |->
                             Document(documents[k].content, [source |-> documents[k].source])],
                         1, TRUE),
         LAMBDA chunks :
      IF Len(chunks) > 0
      THEN [vector_db |-> IF truth THEN db ELSE Handle("ingest_documents"),
            chroma_dir |-> Dir(ChromaOpen(dir).docs \cup Stored(chunks, id)),
            count |-> Len(documents), next_id |-> id + Len(chunks), read |-> db]
      ELSE [vector_db |-> db, chroma_dir |-> dir, count |-> 0, next_id |-> id,
            read |-> NotRead])

\* ingest_documents(documents) with self.vector_db = db, the directory dir, the
\* store's next id and the truth `if self.vector_db:` finds: the handle, the directory,
\* the returned count and the next id.
ingest_documents(documents, db, dir, id, truth) ==
    With([k \in 1..Len(documents) |->
             Document(documents[k].content, [source |-> documents[k].source])],
         LAMBDA docs :
      With(split_documents(docs, 1, TRUE), LAMBDA chunks :
        IF Len(chunks) > 0
        THEN IF truth
             THEN [vector_db |-> db,
                   chroma_dir |-> Dir(dir.docs \cup Stored(chunks, id)),
                   count |-> Len(chunks), next_id |-> id + Len(chunks), read |-> db]
             ELSE [vector_db |-> Handle("ingest_documents"),
                   chroma_dir |-> Dir(ChromaOpen(dir).docs \cup Stored(chunks, id)),
                   count |-> Len(chunks), next_id |-> id + Len(chunks), read |-> db]
        ELSE [vector_db |-> db, chroma_dir |-> dir, count |-> 0, next_id |-> id,
              read |-> NotRead]))

\* retrieve_context(query, k): the results the search may give.
retrieve_context(db, dir, k) ==
    UNION { IF ~truth THEN {{}} ELSE SimilaritySearch(dir.docs, k) :
              truth \in StoreTruth(db, dir) }

\* A clear_db that would leave the directory in place.
clear_db_keeping_directory(db, dir) == load_db(dir, "clear_db")

\* A clear_db that would drop the handle and not load again.
clear_db_dropping_handle(db, dir) ==
    [chroma_dir |-> IF dir.exists THEN NoDir ELSE dir, vector_db |-> NoHandle]

\* clear_db: remove the directory, drop the handle, load again.
clear_db(db, dir) ==
    With(IF dir.exists THEN NoDir ELSE dir, LAMBDA removed : load_db(removed, "clear_db"))

(***************************************************************************)
(* app/backend/llm.py: LLMService                                          *)
(***************************************************************************)
\* generate_test_cases(context, query) when the chain does outcome: the value returned.
LLMService_generate_test_cases(the_llm, outcome) ==
    IF the_llm = NoneVal
    THEN [failure |-> "llm_not_configured", error_as |-> "str", test_cases |-> <<>>]
    ELSE IF outcome.kind \in {"llm_raised", "unparsable_output"}
    THEN [failure |-> outcome.kind, error_as |-> "dict", test_cases |-> <<>>]
    ELSE [failure |-> "", error_as |-> "", test_cases |-> outcome.test_cases]

\* generate_selenium_script(test_case, html_content, context): chain.invoke is not
\* guarded, so what it raises leaves the method.
LLMService_generate_selenium_script(the_llm, outcome) ==
    IF the_llm = NoneVal
    THEN Returned([failure |-> "llm_not_configured", error_as |-> "str"])
    ELSE IF outcome = "llm_raised"
    THEN Raised("APIError")
    ELSE Returned([failure |-> "", error_as |-> ""])

(***************************************************************************)
(* app/backend/main.py: the endpoints                                      *)
(***************************************************************************)
RECURSIVE upload_files_loop(_, _, _)
\* The loop of upload_files from the k-th file on: the documents list, or the
\* exception parse_document raised, with the list as it was then.
upload_files_loop(files, k, documents) ==
    IF k > Len(files) THEN Returned(documents)
    ELSE With2(parse_document(files[k].filename, files[k].content), k + 1,
               LAMBDA text, next :
           IF text.raised THEN [text EXCEPT !.value = documents]
           ELSE With(Append(documents, [content |-> text.value, source |-> files[k].filename]),
                     LAMBDA got : upload_files_loop(files, next, got)))

RECURSIVE upload_files_each(_, _, _, _, _, _, _, _)
\* An upload that would ingest each file as soon as it is parsed, from the k-th on.
upload_files_each(files, k, db, dir, id, truth, count, sources) ==
    IF k > Len(files)
    THEN [vector_db |-> db, chroma_dir |-> dir, next_id |-> id,
          response |-> Response("upload", FALSE, "", "", {}, <<>>, count, db)]
    ELSE With2(parse_document(files[k].filename, files[k].content), k + 1,
               LAMBDA text, next :
           IF text.raised
           THEN [vector_db |-> db, chroma_dir |-> dir, next_id |-> id,
                 response |-> [Response("upload", TRUE, text.exc, "exception",
                                        {}, <<>>, 0, NotRead)
                                 EXCEPT !.dropped = sources]]
           ELSE With(ingest_documents(<<[content |-> text.value,
                                         source |-> files[k].filename]>>, db, dir, id,
                                      truth),
                     LAMBDA done :
                  upload_files_each(files, next, done.vector_db, done.chroma_dir,
                                    done.next_id, TRUE, count + done.count,
                                    Append(sources, files[k].filename))))

\* An upload_files that would call ingest_documents inside its loop.
upload_files_ingesting_each(files, db, dir, id, truth) ==
    upload_files_each(files, 1, db, dir, id, truth, 0, <<>>)

\* POST /upload: every file is parsed, then the documents are ingested.  An exception
\* of parse_document leaves the handler before anything is ingested.
upload_files(files, db, dir, id, truth) ==
    With(upload_files_loop(files, 1, <<>>), LAMBDA documents :
      IF documents.raised
      THEN [vector_db |-> db, chroma_dir |-> dir, next_id |-> id,
            response |-> [Response("upload", TRUE, documents.exc, "exception",
                                   {}, <<>>, 0, NotRead)
                            EXCEPT !.dropped = [k \in 1..Len(documents.value) |->
                                                   documents.value[k].source]]]
      ELSE With(ingest_documents(documents.value, db, dir, id, truth), LAMBDA done :
             [vector_db |-> done.vector_db, chroma_dir |-> done.chroma_dir,
              next_id |-> done.next_id,
              response |-> Response("upload", FALSE, "", "", {}, <<>>, done.count,
                                    done.read)]))

\* POST /generate-test-cases: retrieve k=5, then generate; the result is returned as is.
generate_test_cases(db, the_llm, context_docs, outcome) ==
    With(LLMService_generate_test_cases(the_llm, outcome), LAMBDA result :
      Response("generate-test-cases", FALSE, result.failure, result.error_as,
               context_docs, result.test_cases, 0, db))

\* POST /generate-script: retrieve k=3, then generate; {"script": script} is returned.
generate_script(db, the_llm, context_docs, outcome) ==
    With(LLMService_generate_selenium_script(the_llm, outcome), LAMBDA script :
      IF script.raised
      THEN Response("generate-script", TRUE, "llm_raised", "exception",
                    context_docs, <<>>, 0, db)
      ELSE Response("generate-script", FALSE, script.value.failure, script.value.error_as,
                    context_docs, <<>>, 0, db))

\* POST /clear-kb
clear_knowledge_base(db, dir) ==
    With(clear_db(db, dir), LAMBDA cleared :
      [vector_db |-> cleared.vector_db, chroma_dir |-> cleared.chroma_dir,
       response |-> Response("clear-kb", FALSE, "", "", {}, <<>>, 0, NotRead)])

Upload ==
    /\ program = "backend"
    /\ \E files \in UploadRequests, truth \in StoreTruth(vector_db, chroma_dir) :
         \E out \in {upload_files(files, vector_db, chroma_dir, next_id, truth)} :
             /\ out.next_id <= MaxDocs + 1
             /\ vector_db' = out.vector_db
             /\ chroma_dir' = out.chroma_dir
             /\ next_id' = out.next_id
             /\ response' = out.response
    /\ UNCHANGED <<program, llm, requests, clear_mark, st_vars, fn_vars>>

GenerateTestCases ==
    /\ program = "backend"
    /\ \E query \in Queries, outcome \in TestCaseOutcomes :
         \E context_docs \in retrieve_context(vector_db, chroma_dir, 5) :
            response' = generate_test_cases(vector_db, llm, context_docs, outcome)
    /\ UNCHANGED <<program, backend_vars, next_id, clear_mark, st_vars, fn_vars>>

GenerateScript ==
    /\ program = "backend"
    /\ \E feature \in Queries, outcome \in ScriptOutcomes :
         \E context_docs \in retrieve_context(vector_db, chroma_dir, 3) :
            response' = generate_script(vector_db, llm, context_docs, outcome)
    /\ UNCHANGED <<program, backend_vars, next_id, clear_mark, st_vars, fn_vars>>

ClearKnowledgeBase ==
    /\ program = "backend"
    /\ \E out \in {clear_knowledge_base(vector_db, chroma_dir)} :
           /\ vector_db' = out.vector_db
           /\ chroma_dir' = out.chroma_dir
           /\ response' = out.response
    /\ clear_mark' = next_id
    /\ UNCHANGED <<program, llm, requests, next_id, st_vars, fn_vars>>

(***************************************************************************)
(* streamlit_app.py                                                        *)
(***************************************************************************)
Absent == [state |-> "absent", items |-> <<>>]

NoneList == [state |-> "None", items |-> <<>>]

ListOf(items) == [state |-> "list", items |-> items]

\* the truth value of st.session_state.test_cases, when the key is there at all
Truthy(test_cases) == test_cases.state = "list" /\ Len(test_cases.items) > 0

\* ingest_documents(documents, embeddings): (vector_db, count), with the directory and
\* the store's next id.  Chroma.from_documents opens ./chroma_db and adds the chunks.
st_ingest_documents(documents, dir, id) ==
    With([k \in 1..Len(documents) |->
             Document(documents[k].content, [source |-> documents[k].source])],
         LAMBDA docs :
      With(split_documents(docs, 1, FALSE), LAMBDA chunks :
        IF Len(chunks) > 0
        THEN [vector_db |-> Handle("ingest_documents"),
              chroma_dir |-> Dir(ChromaOpen(dir).docs \cup Stored(chunks, id)),
              count |-> Len(chunks), next_id |-> id + Len(chunks)]
        ELSE [vector_db |-> NoHandle, chroma_dir |-> dir, count |-> 0, next_id |-> id]))

\* retrieve_context(vector_db, query, k)
st_retrieve_context(db, dir, k) ==
    IF db.none THEN {{}} ELSE SimilaritySearch(dir.docs, k)

\* initialize_llm(api_key)
initialize_llm(api_key) == IF api_key # "" THEN "ChatOpenAI" ELSE NoneVal

\* generate_test_cases(llm, context, query)
st_generate_test_cases(the_llm, outcome) ==
    IF the_llm = NoneVal
    THEN [failure |-> "llm_not_configured", error_as |-> "dict", test_cases |-> <<>>,
          has_test_cases |-> FALSE]
    ELSE IF outcome.kind \in {"llm_raised", "unparsable_output"}
    THEN [failure |-> outcome.kind, error_as |-> "dict", test_cases |-> <<>>,
          has_test_cases |-> FALSE]
    ELSE [failure |-> "", error_as |-> "", test_cases |-> outcome.test_cases,
          has_test_cases |-> outcome.kind = "test_plan"]

\* generate_selenium_script(llm, test_case, html_content, context)
st_generate_selenium_script(the_llm, outcome) ==
    IF the_llm = NoneVal
    THEN Returned([failure |-> "llm_not_configured", error_as |-> "str"])
    ELSE IF outcome = "llm_raised"
    THEN Raised("APIError")
    ELSE Returned([failure |-> "", error_as |-> ""])

\* The sidebar's text input: the key is kept by the widget, and the LLM is initialised
\* on the first run that sees a key while session_state.llm is None.
st_enter_api_key(api_key, the_llm) ==
    IF api_key # "" /\ the_llm = NoneVal THEN initialize_llm(api_key) ELSE the_llm

RECURSIVE st_build_loop(_, _, _, _)
\* The loop of the "Build Knowledge Base" button from the k-th file on: each file is
\* read and parsed, and the text of an .html file is kept in
\* session_state.html_content.  An exception of parse_document ends the script run
\* where it is raised, with what the loop has stored until then.
st_build_loop(files, k, documents, html_content) ==
    IF k > Len(files)
    THEN [raised |-> FALSE, exc |-> "", documents |-> documents, html_content |-> html_content]
    ELSE With2(st_parse_document(files[k].filename, files[k].content), k + 1,
               LAMBDA text, next :
           IF text.raised
           THEN [raised |-> TRUE, exc |-> text.exc, documents |-> documents,
                 html_content |-> html_content]
           ELSE With2(Append(documents, [content |-> text.value, source |-> files[k].filename]),
                      IF EndsWith(files[k].filename, ext_html) THEN text.value ELSE html_content,
                      LAMBDA got, kept : st_build_loop(files, next, got, kept)))

\* The "Build Knowledge Base" button with the uploader holding files: the files are
\* parsed, the documents ingested and session_state.vector_db set to the result.
st_build_knowledge_base(files, db, dir, id, html_content) ==
    IF Len(files) = 0
    THEN [vector_db |-> db, chroma_dir |-> dir, next_id |-> id,
          html_content |-> html_content,
          response |-> Response("build", FALSE, "no_files", "message", {}, <<>>, 0, NotRead)]
    ELSE With(st_build_loop(files, 1, <<>>, html_content), LAMBDA read :
           IF read.raised
           THEN [vector_db |-> db, chroma_dir |-> dir, next_id |-> id,
                 html_content |-> read.html_content,
                 response |-> Response("build", TRUE, read.exc, "exception", {}, <<>>, 0,
                                       NotRead)]
           ELSE With(st_ingest_documents(read.documents, dir, id), LAMBDA done :
                  [vector_db |-> done.vector_db, chroma_dir |-> done.chroma_dir,
                   next_id |-> done.next_id, html_content |-> read.html_content,
                   response |-> Response("build", FALSE,
                                         IF done.vector_db.none THEN "no_chunks" ELSE "",
                                         IF done.vector_db.none THEN "message" ELSE "",
                                         {}, <<>>, done.count, NotRead)]))

\* The "Generate Test Cases" button (shown when session_state.vector_db is set).
st_generate_test_cases_button(db, the_llm, old_test_cases, context_docs, outcome) ==
    With(st_generate_test_cases(the_llm, outcome), LAMBDA result :
      IF the_llm = NoneVal
      THEN [test_cases |-> old_test_cases,
            response |-> Response("generate-test-cases", FALSE, "llm_not_configured",
                                  "message", {}, <<>>, 0, NotRead)]
      ELSE IF result.failure # ""
      THEN [test_cases |-> old_test_cases,
            response |-> Response("generate-test-cases", FALSE, result.failure, "message",
                                  context_docs, <<>>, 0, db)]
      ELSE IF result.has_test_cases
      THEN [test_cases |-> ListOf(result.test_cases),
            response |-> Response("generate-test-cases", FALSE, "", "",
                                  context_docs, result.test_cases, 0, db)]
      ELSE [test_cases |-> old_test_cases,
            response |-> Response("generate-test-cases", FALSE, "invalid_format",
                                  "message", context_docs, <<>>, 0, db)])

\* The "Generate Selenium Script" button (shown when session_state.test_cases is set
\* and not empty).
st_generate_script_button(db, the_llm, context_docs, outcome) ==
    With(st_generate_selenium_script(the_llm, outcome), LAMBDA script :
      IF the_llm = NoneVal
      THEN Response("generate-script", FALSE, "llm_not_configured", "message",
                    {}, <<>>, 0, NotRead)
      ELSE IF script.raised
      THEN Response("generate-script", TRUE, "llm_raised", "exception",
                    context_docs, <<>>, 0, db)
      ELSE Response("generate-script", FALSE, "", "", context_docs, <<>>, 0, db))

ApiKeys == {"", "sk-key"}

StEnterApiKey ==
    /\ program = "streamlit"
    /\ \E api_key \in ApiKeys :
         /\ st_api_key' = api_key
         /\ st_llm' = st_enter_api_key(api_key, st_llm)
    /\ response' = Response("api-key", FALSE, "", "", {}, <<>>, 0, NotRead)
    /\ UNCHANGED <<program, backend_vars, st_chroma_dir, st_vector_db, st_html_content,
                   st_test_cases, next_id, clear_mark, fn_vars>>

StBuildKnowledgeBase ==
    /\ program = "streamlit"
    /\ \E files \in UploadRequests \cup {<<>>} :
         \E out \in {st_build_knowledge_base(files, st_vector_db, st_chroma_dir, next_id,
                                             st_html_content)} :
             /\ out.next_id <= MaxDocs + 1
             /\ st_vector_db' = out.vector_db
             /\ st_chroma_dir' = out.chroma_dir
             /\ next_id' = out.next_id
             /\ st_html_content' = out.html_content
             /\ response' = out.response
    /\ UNCHANGED <<program, backend_vars, st_llm, st_api_key, st_test_cases, clear_mark,
                   fn_vars>>

StGenerateTestCases ==
    /\ program = "streamlit"
    /\ ~st_vector_db.none
    /\ \E user_query \in Queries, outcome \in TestCaseOutcomes :
         \E context_docs \in st_retrieve_context(st_vector_db, st_chroma_dir, 5) :
            \E out \in {st_generate_test_cases_button(st_vector_db, st_llm, st_test_cases,
                                                      context_docs, outcome)} :
                /\ st_test_cases' = out.test_cases
                /\ response' = out.response
    /\ UNCHANGED <<program, backend_vars, st_chroma_dir, st_vector_db, st_llm, st_api_key,
                   st_html_content, next_id, clear_mark, fn_vars>>

StGenerateScript ==
    /\ program = "streamlit"
    /\ Truthy(st_test_cases)
    /\ \E selected \in 1..Len(st_test_cases.items), outcome \in ScriptOutcomes :
         \E context_docs \in st_retrieve_context(st_vector_db, st_chroma_dir, 3) :
            response' = st_generate_script_button(st_vector_db, st_llm, context_docs, outcome)
    /\ UNCHANGED <<program, backend_vars, st_vars, next_id, clear_mark, fn_vars>>

\* A "Clear Knowledge Base" button that would leave session_state.test_cases as it is.
StClearKnowledgeBaseKeepingTestCases ==
    /\ program = "streamlit"
    /\ st_vector_db' = NoHandle
    /\ clear_mark' = next_id
    /\ response' = Response("clear-kb", FALSE, "", "", {}, <<>>, 0, NotRead)
    /\ UNCHANGED <<program, backend_vars, st_chroma_dir, st_llm, st_api_key,
                   st_html_content, st_test_cases, next_id, fn_vars>>

\* The "Clear Knowledge Base" button
StClearKnowledgeBase ==
    /\ program = "streamlit"
    /\ st_vector_db' = NoHandle
    /\ st_test_cases' = NoneList
    /\ clear_mark' = next_id
    /\ response' = Response("clear-kb", FALSE, "", "", {}, <<>>, 0, NotRead)
    /\ UNCHANGED <<program, backend_vars, st_chroma_dir, st_llm, st_api_key,
                   st_html_content, next_id, fn_vars>>

(***************************************************************************)
(* The programs.                                                           *)
(***************************************************************************)
\* A chunk an earlier run of the backend left in data/chroma.
EarlierDocs ==
    { [id |-> 1, page_content |-> <<97>>,
       metadata |-> [source |-> name_a_txt, start_index |-> 0]] }

BackendIdle ==
    /\ chroma_dir = NoDir
    /\ vector_db = NoHandle
    /\ llm = NoneVal
    /\ requests = NoRequests

StreamlitIdle ==
    /\ st_chroma_dir = NoDir
    /\ st_vector_db = NoHandle
    /\ st_llm = NoneVal
    /\ st_api_key = ""
    /\ st_html_content = <<>>
    /\ st_test_cases = Absent

FnIdle ==
    /\ fn_input = <<>>
    /\ fn_output = <<>>

\* main.py as imported: rag = RAGPipeline() has loaded the directory (with what an
\* earlier run left there), llm_service = LLMService() has read OPENAI_API_KEY.
BackendInit ==
    /\ program = "backend"
    /\ \E earlier \in {{}, EarlierDocs} :
         /\ chroma_dir = load_db(IF earlier = {} THEN NoDir ELSE Dir(earlier), "__init__").chroma_dir
         /\ vector_db = load_db(IF earlier = {} THEN NoDir ELSE Dir(earlier), "__init__").vector_db
         /\ next_id = Cardinality(earlier) + 1
         /\ clear_mark = 1
    /\ llm \in {NoneVal, "ChatOpenAI"}
    /\ requests = NoRequests
    /\ response = NoResponse
    /\ StreamlitIdle
    /\ FnIdle

\* streamlit_app.py at the first run of a session.
StreamlitInit ==
    /\ program = "streamlit"
    /\ StreamlitIdle
    /\ next_id = 1
    /\ clear_mark = 1
    /\ response = NoResponse
    /\ BackendIdle
    /\ FnIdle

\* The backend, serving one request after another.
Init == BackendInit

Next ==
    \/ Upload
    \/ GenerateTestCases
    \/ GenerateScript
    \/ ClearKnowledgeBase

Spec == Init /\ [][Next]_vars

\* A session of the Streamlit application, one user action after another.
StNext ==
    \/ StEnterApiKey
    \/ StBuildKnowledgeBase
    \/ StGenerateTestCases
    \/ StGenerateScript
    \/ StClearKnowledgeBase

StSpec == StreamlitInit /\ [][StNext]_vars

\* Either program, from its start.
AppInit == BackendInit \/ StreamlitInit

AppNext ==
    \/ Next
    \/ StNext

AppSpec == AppInit /\ [][AppNext]_vars

(***************************************************************************)
(* The backend serving requests at once.  A step is one read or write of   *)
(* rag.vector_db or one call on the store; what a request computes from    *)
(* its own locals between two of them is part of the step before.  A       *)
(* method called on None raises AttributeError, which leaves the handler.  *)
(* A handle whose directory was removed finds an empty collection there.   *)
(***************************************************************************)
Workers == Threads \ {"event_loop"}

\* the k of the retrieve_context call of an endpoint
RetrieveK(op) == IF op = "generate-test-cases" THEN 5 ELSE 3

\* self.vector_db.<method>(...) with self.vector_db None
CallOnNone(op) == Response(op, TRUE, "AttributeError", "exception", {}, <<>>, 0, NoHandle)

\* POST /upload until ingest_documents tests self.vector_db: the files are parsed and
\* the documents split.  A parse failure and an upload without chunks end here.
ConcUploadFiles ==
    /\ program = "backend"
    /\ Free(requests["event_loop"])
    /\ \E files \in UploadRequests :
         \E documents \in {upload_files_loop(files, 1, <<>>)} :
            IF documents.raised
            THEN /\ response' = upload_files(files, vector_db, chroma_dir, next_id,
                                                  TRUE).response
                 /\ requests' = [requests EXCEPT !["event_loop"] = Idle(@.served + 1)]
            ELSE \E chunks \in {split_documents(
                                   [k \in 1..Len(documents.value) |->
                                       Document(documents.value[k].content,
                                                [source |-> documents.value[k].source])],
                                   1, TRUE)} :
                    /\ next_id + Len(chunks) <= MaxDocs + 1
                    /\ IF Len(chunks) = 0
                       THEN /\ response' = Response("upload", FALSE, "", "", {}, <<>>, 0,
                                                    NotRead)
                            /\ requests' = [requests EXCEPT
                                               !["event_loop"] = Idle(@.served + 1)]
                       ELSE /\ requests' = [requests EXCEPT !["event_loop"] =
                                               Request("upload", "test", chunks, {}, NotRead, @.served)]
                            /\ UNCHANGED response
    /\ UNCHANGED <<program, chroma_dir, vector_db, llm, next_id, clear_mark, st_vars, fn_vars>>

\* ingest_documents: if self.vector_db:
ConcIngestTest ==
    /\ program = "backend"
    /\ requests["event_loop"].pc = "test"
    /\ \E truth \in StoreTruth(vector_db, chroma_dir) :
          requests' = [requests EXCEPT
                          !["event_loop"].pc = IF truth THEN "add_documents"
                                               ELSE "from_documents",
                          !["event_loop"].handle = vector_db]
    /\ UNCHANGED <<program, chroma_dir, vector_db, llm, next_id, clear_mark, response,
                   st_vars, fn_vars>>

\* ingest_documents: self.vector_db.add_documents(chunks)
ConcIngestAddDocuments ==
    /\ program = "backend"
    /\ requests["event_loop"].pc = "add_documents"
    /\ IF vector_db.none
       THEN /\ response' = CallOnNone("upload")
            /\ requests' = [requests EXCEPT !["event_loop"] = Idle(@.served + 1)]
            /\ UNCHANGED <<chroma_dir, next_id>>
       ELSE /\ chroma_dir' = Dir(chroma_dir.docs
                                   \cup Stored(requests["event_loop"].chunks, next_id))
            /\ next_id' = next_id + Len(requests["event_loop"].chunks)
            /\ requests' = [requests EXCEPT !["event_loop"].pc = "persist",
                                            !["event_loop"].handle = vector_db]
            /\ UNCHANGED response
    /\ UNCHANGED <<program, vector_db, llm, clear_mark, st_vars, fn_vars>>

\* ingest_documents: Chroma.from_documents(chunks, ..., persist_directory=CHROMA_PATH)
ConcIngestFromDocuments ==
    /\ program = "backend"
    /\ requests["event_loop"].pc = "from_documents"
    /\ chroma_dir' = Dir(ChromaOpen(chroma_dir).docs
                           \cup Stored(requests["event_loop"].chunks, next_id))
    /\ next_id' = next_id + Len(requests["event_loop"].chunks)
    /\ requests' = [requests EXCEPT !["event_loop"].pc = "assign"]
    /\ UNCHANGED <<program, vector_db, llm, clear_mark, response, st_vars, fn_vars>>

\* ingest_documents: self.vector_db = <the store from_documents made>
ConcIngestAssign ==
    /\ program = "backend"
    /\ requests["event_loop"].op = "upload"
    /\ requests["event_loop"].pc = "assign"
    /\ vector_db' = Handle("ingest_documents")
    /\ requests' = [requests EXCEPT !["event_loop"].pc = "persist"]
    /\ UNCHANGED <<program, chroma_dir, llm, next_id, clear_mark, response, st_vars, fn_vars>>

\* ingest_documents: self.vector_db.persist(); return len(chunks), and the answer of
\* upload_files
ConcIngestPersist ==
    /\ program = "backend"
    /\ requests["event_loop"].pc = "persist"
    /\ response' = IF vector_db.none THEN CallOnNone("upload")
                   ELSE Response("upload", FALSE, "", "", {}, <<>>,
                                 Len(requests["event_loop"].chunks), vector_db)
    /\ requests' = [requests EXCEPT !["event_loop"] = Idle(@.served + 1)]
    /\ UNCHANGED <<program, chroma_dir, vector_db, llm, next_id, clear_mark, st_vars, fn_vars>>

\* POST /generate-test-cases or /generate-script, retrieve_context: if not self.vector_db
ConcRetrieveTest(t) ==
    /\ program = "backend"
    /\ Free(requests[t])
    /\ \E op \in {"generate-test-cases", "generate-script"},
          truth \in StoreTruth(vector_db, chroma_dir) :
         requests' = [requests EXCEPT ![t] =
                         Request(op, IF truth THEN "similarity_search" ELSE "generate",
                                 <<>>, {}, vector_db, @.served)]
    /\ UNCHANGED <<program, chroma_dir, vector_db, llm, next_id, clear_mark, response,
                   st_vars, fn_vars>>

\* retrieve_context: self.vector_db.similarity_search(query, k=k)
ConcRetrieveSearch(t) ==
    /\ program = "backend"
    /\ requests[t].pc = "similarity_search"
    /\ IF vector_db.none
       THEN /\ response' = CallOnNone(requests[t].op)
            /\ requests' = [requests EXCEPT ![t] = Idle(@.served + 1)]
       ELSE /\ \E results \in SimilaritySearch(chroma_dir.docs, RetrieveK(requests[t].op)) :
                 requests' = [requests EXCEPT ![t].pc = "generate",
                                              ![t].context_docs = results,
                                              ![t].handle = vector_db]
            /\ UNCHANGED response
    /\ UNCHANGED <<program, chroma_dir, vector_db, llm, next_id, clear_mark, st_vars, fn_vars>>

\* generate_test_cases, generate_script: the call of llm_service and the answer
ConcGenerate(t) ==
    /\ program = "backend"
    /\ requests[t].pc = "generate"
    /\ IF requests[t].op = "generate-test-cases"
       THEN \E outcome \in TestCaseOutcomes :
               response' = generate_test_cases(requests[t].handle, llm,
                                               requests[t].context_docs, outcome)
       ELSE \E outcome \in ScriptOutcomes :
               response' = generate_script(requests[t].handle, llm,
                                           requests[t].context_docs, outcome)
    /\ requests' = [requests EXCEPT ![t] = Idle(@.served + 1)]
    /\ UNCHANGED <<program, chroma_dir, vector_db, llm, next_id, clear_mark, st_vars, fn_vars>>

\* POST /clear-kb, clear_db: if os.path.exists(CHROMA_PATH): shutil.rmtree(CHROMA_PATH)
ConcClearRmtree(t) ==
    /\ program = "backend"
    /\ Free(requests[t])
    /\ chroma_dir' = IF chroma_dir.exists THEN NoDir ELSE chroma_dir
    /\ clear_mark' = next_id
    /\ requests' = [requests EXCEPT ![t] = Request("clear-kb", "set_none", <<>>, {}, NotRead,
                                                         @.served)]
    /\ UNCHANGED <<program, vector_db, llm, next_id, response, st_vars, fn_vars>>

\* clear_db: self.vector_db = None
ConcClearSetNone(t) ==
    /\ program = "backend"
    /\ requests[t].pc = "set_none"
    /\ vector_db' = NoHandle
    /\ requests' = [requests EXCEPT ![t].pc = "load_db"]
    /\ UNCHANGED <<program, chroma_dir, llm, next_id, clear_mark, response, st_vars, fn_vars>>

\* clear_db: self._load_db(), the call Chroma(persist_directory=CHROMA_PATH, ...)
ConcClearLoadDb(t) ==
    /\ program = "backend"
    /\ requests[t].pc = "load_db"
    /\ chroma_dir' = load_db(chroma_dir, "clear_db").chroma_dir
    /\ requests' = [requests EXCEPT ![t].pc = "assign"]
    /\ UNCHANGED <<program, vector_db, llm, next_id, clear_mark, response, st_vars, fn_vars>>

\* _load_db: self.vector_db = <the store>, and the answer of clear_knowledge_base
ConcClearAssign(t) ==
    /\ program = "backend"
    /\ requests[t].op = "clear-kb"
    /\ requests[t].pc = "assign"
    /\ vector_db' = load_db(chroma_dir, "clear_db").vector_db
    /\ response' = Response("clear-kb", FALSE, "", "", {}, <<>>, 0, NotRead)
    /\ requests' = [requests EXCEPT ![t] = Idle(@.served + 1)]
    /\ UNCHANGED <<program, chroma_dir, llm, next_id, clear_mark, st_vars, fn_vars>>

ConcNext ==
    \/ ConcUploadFiles
    \/ ConcIngestTest
    \/ ConcIngestAddDocuments
    \/ ConcIngestFromDocuments
    \/ ConcIngestAssign
    \/ ConcIngestPersist
    \/ \E t \in Workers : ConcRetrieveTest(t)
    \/ \E t \in Workers : ConcRetrieveSearch(t)
    \/ \E t \in Workers : ConcGenerate(t)
    \/ \E t \in Workers : ConcClearRmtree(t)
    \/ \E t \in Workers : ConcClearSetNone(t)
    \/ \E t \in Workers : ConcClearLoadDb(t)
    \/ \E t \in Workers : ConcClearAssign(t)

\* The backend with an upload, and a retrieval or a clear on each pool thread, in
\* service at once.
ConcSpec == BackendInit /\ [][ConcNext]_vars

(***************************************************************************)
(* The document loader on its own: one call of parse_document on uploaded  *)
(* bytes, by the backend's copy or by streamlit_app's.                     *)
(***************************************************************************)
\* bytes in an uploaded file, beyond the sample files
MaxBytes == 3

\* ' '  ','  '1'  '['  ']'  and the bytes of U+00E9, which are ill-formed on their own
ParseBytes == {32, 44, 49, 91, 93, 169, 195}

\* [1,[20,3]]    [ [], 1 ]\n    [1,01]    "é" in an array    a lone BOM
ParseSamples ==
    { <<91, 49, 44, 91, 50, 48, 44, 51, 93, 93>>,
      <<91, 32, 91, 93, 44, 32, 49, 32, 93, 10>>,
      <<91, 49, 44, 48, 49, 93>>,
      <<91, 195, 169, 93>>,
      <<239, 187, 191>> }

ParseNames ==
    { <<"a", ".", "m", "d">>, <<"a", ".", "t", "x", "t">>, <<"c", ".", "j", "s", "o", "n">>,
      <<"p", ".", "h", "t", "m", "l">>, <<"q", ".", "h", "t", "m", "l">>,
      <<"x", ".", "c", "s", "v">>, <<"R", "E", "A", "D", "M", "E">>,
      <<"a", ".", "M", "D">>, <<"m", "d">> }

ParseInputs ==
    [filename : ParseNames, content : SeqsUpTo(ParseBytes, MaxBytes) \cup ParseSamples]

NotApplied == [fn |-> "none"]

ParseInit ==
    /\ program = "parse_document"
    /\ fn_input \in ParseInputs
    /\ fn_output = NotApplied
    /\ next_id = 1
    /\ clear_mark = 1
    /\ response = NoResponse
    /\ BackendIdle
    /\ StreamlitIdle

\* app/utils/parsers.py: parse_document(filename, content)
ParseDocument ==
    /\ program = "parse_document"
    /\ fn_output = NotApplied
    /\ fn_output' = [fn |-> "parse_document",
                     result |-> parse_document(fn_input.filename, fn_input.content)]
    /\ UNCHANGED <<program, backend_vars, st_vars, next_id, clear_mark, response, fn_input>>

\* streamlit_app.py: parse_document(filename, content)
StParseDocument ==
    /\ program = "parse_document"
    /\ fn_output = NotApplied
    /\ fn_output' = [fn |-> "st_parse_document",
                     result |-> st_parse_document(fn_input.filename, fn_input.content)]
    /\ UNCHANGED <<program, backend_vars, st_vars, next_id, clear_mark, response, fn_input>>

ParseNext ==
    \/ ParseDocument
    \/ StParseDocument

ParseSpec == ParseInit /\ [][ParseNext]_vars

(***************************************************************************)
(* The chunker on its own: one call of split_documents on one document,    *)
(* as the backend configures the splitter (add_start_index=True) or as     *)
(* streamlit_app does (no start index).                                    *)
(***************************************************************************)
\* the length of the longest word
MaxWordLen == 1700

WordLens == {1, 600, chunk_size, MaxWordLen}

\* what stands between two words: nothing, a space, a blank line
Gaps == {<<>>, <<32>>, <<10, 10>>}

\* a word of n lower-case letters that repeats no long run of itself
Word(n) == [i \in 1..n |-> 97 + (((i * i) % 1009) % 26)]

RECURSIVE Sentence(_, _, _)
\* n words of len letters, gap before each but the first
Sentence(n, len, gap) ==
    IF n = 1 THEN Word(len) ELSE Sentence(n - 1, len, gap) \o gap \o Word(len)

\* a line of short words; paragraphs; a text in white space; words of 150 and of 400
\* letters; a long word after a short line
SplitSamples ==
    { Sentence(3, 1, <<32>>),
      Sentence(3, 600, <<10>>),
      <<32, 10>> \o Word(600) \o <<32, 32>> \o Word(1) \o <<10>>,
      Sentence(8, 150, <<32>>),
      Sentence(4, 400, <<10, 10>>),
      Word(1) \o <<32>> \o Word(1) \o <<10>> \o Word(MaxWordLen),
      <<32>>,
      <<>> }

\* The documents split: one word, two words, and the samples.
SplitTexts ==
    {Word(len) : len \in WordLens}
      \cup {Word(a) \o gap \o Word(b) : a \in WordLens, gap \in Gaps, b \in WordLens}
      \cup SplitSamples

SplitInputs == {Document(t, [source |-> name_a_txt]) : t \in SplitTexts}

SplitInit ==
    /\ program = "split_documents"
    /\ fn_input \in SplitInputs
    /\ fn_output = NotApplied
    /\ next_id = 1
    /\ clear_mark = 1
    /\ response = NoResponse
    /\ BackendIdle
    /\ StreamlitIdle

\* rag.py: text_splitter.split_documents(docs) with add_start_index=True.  The pieces
\* of the text the chunks were taken from are kept beside the chunks.
SplitDocuments ==
    /\ program = "split_documents"
    /\ fn_output = NotApplied
    /\ fn_output' = [fn |-> "split_documents",
                     pieces |-> split_text(fn_input.page_content),
                     chunks |-> split_documents(<<fn_input>>, 1, TRUE)]
    /\ UNCHANGED <<program, backend_vars, st_vars, next_id, clear_mark, response, fn_input>>

\* streamlit_app.py: text_splitter.split_documents(docs), no add_start_index.
StSplitDocuments ==
    /\ program = "split_documents"
    /\ fn_output = NotApplied
    /\ fn_output' = [fn |-> "st_split_documents",
                     pieces |-> split_text(fn_input.page_content),
                     chunks |-> split_documents(<<fn_input>>, 1, FALSE)]
    /\ UNCHANGED <<program, backend_vars, st_vars, next_id, clear_mark, response, fn_input>>

SplitNext ==
    \/ SplitDocuments
    \/ StSplitDocuments

SplitSpec == SplitInit /\ [][SplitNext]_vars

(***************************************************************************)
(* Properties.                                                             *)
(***************************************************************************)

\* C1: every failure of upload, generate-test-cases and generate-script reaches the
\* caller as a plain string: no exception leaves the handler, no other value is
\* returned.
C1_FailuresArePlainStrings ==
    program = "backend" =>
        (response.failure # "" => ~response.raised /\ response.error_as = "str")

\* C2: after a clear-kb the backend's retrieve_context never returns a chunk ingested
\* before that clear, and right after the clear it returns no chunk at all.
C2_ClearedChunksAreNeverRetrieved ==
    program = "backend" =>
        /\ \A d \in response.retrieved : d.id >= clear_mark
        /\ response.op = "clear-kb" =>
               \A k \in {3, 5} : retrieve_context(vector_db, chroma_dir, k) = {{}}

\* C2, its case: chunks were ingested, the knowledge base cleared, and a later
\* retrieval returned chunks.
C2_RetrievedAfterClearAndUpload ==
    /\ program = "backend"
    /\ clear_mark > 1
    /\ response.retrieved # {}

\* C3: in the backend every request but clear-kb leaves each persisted chunk as it is,
\* and an upload adds as many chunks as it reports, also for a filename ingested before.
C3_PersistedChunksOnlyGrow ==
    [][(program = "backend" /\ response'.op # "clear-kb") =>
          /\ chroma_dir.docs \subseteq chroma_dir'.docs
          /\ (response'.op = "upload" /\ ~response'.raised) =>
                 Cardinality(chroma_dir'.docs \ chroma_dir.docs) = response'.count]_vars

\* C3, its case: the same file was ingested twice and its chunk is stored twice.
C3_SameFileStoredTwice ==
    /\ program = "backend"
    /\ response.op = "upload"
    /\ \E d1, d2 \in chroma_dir.docs :
          /\ d1.id # d2.id
          /\ d1.metadata.source = d2.metadata.source
          /\ d1.page_content = d2.page_content

\* C4: every chunk persisted by either ingestion path carries its text, its source
\* and its start offset.
C4_ChunksCarryTextSourceAndStartOffset ==
    \A d \in chroma_dir.docs \cup st_chroma_dir.docs :
        /\ "page_content" \in DOMAIN d
        /\ {"source", "start_index"} \subseteq DOMAIN d.metadata

\* C5: every test case a generation returns cites, in grounded_in, the source filename
\* of a document ingested in the knowledge base.
C5_TestCasesCiteAnIngestedSource ==
    program = "backend" =>
        \A i \in DOMAIN response.test_cases :
            \E d \in chroma_dir.docs :
                d.metadata.source = response.test_cases[i].grounded_in

(***************************************************************************)
(* C6.  UTF-8 and the layout of indented JSON, stated from their           *)
(* definitions rather than by the decoder's and the encoder's loops.       *)
(***************************************************************************)
Utf8EncodeChar(c) ==
    IF c < 128 THEN <<c>>
    ELSE IF c < 2048 THEN <<192 + (c \div 64), 128 + (c % 64)>>
    ELSE IF c < 65536
        THEN <<224 + (c \div 4096), 128 + ((c \div 64) % 64), 128 + (c % 64)>>
    ELSE <<240 + (c \div 262144), 128 + ((c \div 4096) % 64), 128 + ((c \div 64) % 64),
           128 + (c % 64)>>

RECURSIVE Utf8Encode(_)
Utf8Encode(text) ==
    IF text = <<>> THEN <<>> ELSE Utf8EncodeChar(Head(text)) \o Utf8Encode(Tail(text))

\* A well-formed encoded character starts at position i.
Utf8SequenceAt(bs, i) ==
    LET need == Utf8Need(bs[i])
    IN  /\ need > 0
        /\ i + need - 1 <= Len(bs)
        /\ need >= 2 => Utf8SecondOk(bs[i], bs[i + 1])
        /\ \A k \in 2..(need - 1) : IsCont(bs[i + k])

\* The positions of the bytes that belong to a well-formed encoded character.
Utf8Decodable(bs) ==
    {p \in 1..Len(bs) :
        \E i \in 1..p : /\ i >= p - 3
                        /\ Utf8SequenceAt(bs, i)
                        /\ p <= i + Utf8Need(bs[i]) - 1}

RECURSIVE KeepAt(_, _, _)
\* The bytes at the positions in keep, from position i on.
KeepAt(bs, keep, i) ==
    IF i > Len(bs) THEN <<>>
    ELSE (IF i \in keep THEN <<bs[i]>> ELSE <<>>) \o KeepAt(bs, keep, i + 1)

\* The filename from its last dot on (nothing when it has no dot).
ExtensionOf(filename) ==
    LET dots == {i \in 1..Len(filename) : filename[i] = "."}
    IN  IF dots = {} THEN <<>> ELSE SubSeq(filename, Max(dots), Len(filename))

\* The layout json.dumps(indent=2) gives arrays of numbers: every line indented by two
\* spaces per open bracket (a closing bracket by those of its array), an item per line,
\* no other white space.
IndentedByTwo(out) ==
    LET depth(i) == Cardinality({j \in 1..i : out[j] = 91})
                      - Cardinality({j \in 1..i : out[j] = 93})
        spaces(i) == Min({j \in (i + 1)..(Len(out) + 1) : j > Len(out) \/ out[j] # 32})
                       - i - 1
    IN  \A i \in 1..Len(out) :
            /\ out[i] = 10 =>
                   /\ i + spaces(i) + 1 <= Len(out)
                   /\ spaces(i) = 2 * (IF out[i + spaces(i) + 1] = 93
                                       THEN depth(i) - 1 ELSE depth(i))
            /\ out[i] = 32 => i > 1 /\ out[i - 1] \in {10, 32}
            /\ out[i] = 44 => i < Len(out) /\ out[i + 1] = 10
            /\ out[i] = 91 => i < Len(out) /\ out[i + 1] \in {10, 93}
            /\ out[i] \notin {9, 13}

\* C6: parse_document converts by the filename's extension only: .md, .txt and .html
\* give the strict UTF-8 decoding of the bytes, unchanged; .json gives the parsed JSON
\* value serialised again with an indent of two spaces; every other filename gives
\* the decoding with the undecodable bytes dropped, and never fails.
C6_ParseDocumentByExtension ==
    (program = "parse_document" /\ fn_output.fn # "none") =>
        LET content == fn_input.content
            result == fn_output.result
            ext == ExtensionOf(fn_input.filename)
            decodable == Utf8Decodable(content)
            well_formed == decodable = 1..Len(content)
        IN  /\ ext \in {ext_md, ext_txt, ext_html} =>
                   /\ result.raised <=> ~well_formed
                   /\ ~result.raised => Utf8Encode(result.value) = content
            /\ ext = ext_json =>
                   /\ ~well_formed => result.raised
                   /\ ~result.raised =>
                          /\ IndentedByTwo(result.value)
                          /\ json_loads(result.value) = json_loads(decode_utf8(content).value)
            /\ ext \notin {ext_md, ext_txt, ext_html, ext_json} =>
                   /\ ~result.raised
                   /\ Utf8Encode(result.value) = KeepAt(content, decodable, 1)
            /\ \A other \in ParseNames :
                   ExtensionOf(other) = ext =>
                       /\ parse_document(other, content) = result
                       /\ st_parse_document(other, content) = result

\* C6, its case: a .json file was parsed and came back serialised with indentation.
C6_JsonReserialised ==
    /\ program = "parse_document"
    /\ fn_output.fn = "parse_document"
    /\ ExtensionOf(fn_input.filename) = ext_json
    /\ ~fn_output.result.raised
    /\ Len(fn_output.result.value) > Len(fn_input.content)

\* C7 as it stands: no in-memory value written while serving one request is read while
\* serving another; the vector store handle a request reads is the one made at startup.
C7_NoValueWrittenByARequestIsRead ==
    program = "backend" => response.handle.opened_by \in {"__init__", "not read"}

\* C7, amended: the one in-memory value a request writes and a later one reads is
\* rag.vector_db, which clear-kb (and an upload that finds the store false) replaces by
\* a new handle on the same directory; it is never None between requests, and what a
\* request persists, reports and retrieves is the same as with the handle made at
\* startup: it depends on the request's inputs and the directory's contents only.
C7_OnlyTheStoreHandleIsShared ==
    program = "backend" =>
        /\ ~vector_db.none
        /\ vector_db.opened_by \in {"__init__", "clear_db", "ingest_documents"}
        /\ chroma_dir.exists
        /\ \A k \in {3, 5} :
               retrieve_context(vector_db, chroma_dir, k) = SimilaritySearch(chroma_dir.docs, k)
        /\ \A files \in UploadRequests, truth, other \in StoreTruth(vector_db, chroma_dir) :
               LET here == upload_files(files, vector_db, chroma_dir, next_id, truth)
                   fresh == upload_files(files, Handle("__init__"), chroma_dir, next_id,
                                         other)
               IN  /\ here.chroma_dir = fresh.chroma_dir
                   /\ here.response.count = fresh.response.count
                   /\ here.response.raised = fresh.response.raised
                   /\ ~here.vector_db.none

\* C7, its case: an upload read the handle that an earlier clear-kb request wrote.
C7_UploadReadsHandleWrittenByClear ==
    /\ program = "backend"
    /\ response.op = "upload"
    /\ response.handle.opened_by = "clear_db"

\* chunk is a run of consecutive characters of text
IsPieceOf(chunk, text) ==
    \E p \in 0..(Len(text) - Len(chunk)) : SubSeq(text, p + 1, p + Len(chunk)) = chunk

\* C8 as it stands: once an ingestion has completed no program state holds a
\* document's full content.
C8_NoStateHoldsADocument ==
    (response.op \in {"upload", "build"} /\ ~response.raised) => st_html_content = <<>>

\* C8, amended: after an ingestion only the chunks remain of a document, each a piece
\* of the text parse_document gave for the file it names as its source, unmodified;
\* except that streamlit_app keeps in session_state.html_content the whole text of
\* the last .html file it parsed.  The backend keeps no document.
C8_OnlyChunksAndHtmlContentRemain ==
    /\ \A d \in chroma_dir.docs :
          \E f \in UploadFiles :
             /\ f.filename = d.metadata.source
             /\ IsPieceOf(d.page_content, parse_document(f.filename, f.content).value)
    /\ \A d \in st_chroma_dir.docs :
          \E f \in UploadFiles :
             /\ f.filename = d.metadata.source
             /\ IsPieceOf(d.page_content, st_parse_document(f.filename, f.content).value)
    /\ \/ st_html_content = <<>>
       \/ \E f \in UploadFiles :
             /\ ExtensionOf(f.filename) = ext_html
             /\ st_parse_document(f.filename, f.content) = Returned(st_html_content)
    /\ program = "backend" => st_html_content = <<>>

\* C8, its case: a Build Knowledge Base has completed, its chunks are stored, and the
\* page's text is still held.
C8_BuildCompletedAndPageKept ==
    /\ program = "streamlit"
    /\ response.op = "build"
    /\ ~response.raised
    /\ st_chroma_dir.docs # {}
    /\ st_html_content # <<>>

\* The windows of a text of n characters: chunk_size wide, each starting
\* chunk_size - chunk_overlap after the one before, the last one ending the text.
IsWindows(pieces, n) ==
    /\ Len(pieces) > 0
    /\ pieces[1].lo = 1
    /\ pieces[Len(pieces)].hi = n
    /\ \A k \in 1..Len(pieces) :
          /\ k < Len(pieces) => RangeLen(pieces[k]) = chunk_size
          /\ RangeLen(pieces[k]) <= chunk_size
          /\ k < Len(pieces) => pieces[k + 1].lo = pieces[k].lo + chunk_size - chunk_overlap

\* The chunks are the text of the pieces, in order.
ChunksArePieces(chunks, pieces, text) ==
    /\ Len(chunks) = Len(pieces)
    /\ \A k \in 1..Len(pieces) :
          /\ 1 <= pieces[k].lo /\ pieces[k].lo <= pieces[k].hi /\ pieces[k].hi <= Len(text)
          /\ chunks[k].page_content = SubSeq(text, pieces[k].lo, pieces[k].hi)

\* C9 as it stands: the chunks of a document (one longer than a chunk) are the
\* fixed-size windows of its text, 1000 characters each but the last, each overlapping
\* the one before by 200, covering the whole text.
C9_ChunksAreFixedWindows ==
    (program = "split_documents" /\ fn_output.fn # "none"
        /\ Len(fn_input.page_content) > chunk_size) =>
        /\ ChunksArePieces(fn_output.chunks, fn_output.pieces, fn_input.page_content)
        /\ IsWindows(fn_output.pieces, Len(fn_input.page_content))

\* C9, amended: the text is split at blank lines, line ends and spaces before it is
\* split between characters.  Every chunk is a piece of consecutive characters of its
\* document's text, not empty, at most 1000 long, with no white space at either end;
\* the chunks come in the text's order, a chunk shares at most 200 characters with the
\* one before, and together they cover every character that is not white space.  A
\* text without white space is split into the fixed windows of 1000 with overlap 200.
C9_ChunksAreBoundedPieces ==
    (program = "split_documents" /\ fn_output.fn # "none") =>
        LET text == fn_input.page_content
            pieces == fn_output.pieces
            chunks == fn_output.chunks
        IN  /\ ChunksArePieces(chunks, pieces, text)
            /\ \A k \in 1..Len(pieces) :
                  /\ RangeLen(pieces[k]) <= chunk_size
                  /\ ~IsSpace(text[pieces[k].lo]) /\ ~IsSpace(text[pieces[k].hi])
                  /\ chunks[k].metadata.source = fn_input.metadata.source
                  /\ k < Len(pieces) =>
                        /\ pieces[k].lo < pieces[k + 1].lo
                        /\ pieces[k].hi < pieces[k + 1].hi
                        /\ pieces[k].hi - pieces[k + 1].lo + 1 <= chunk_overlap
            /\ \A i \in 1..Len(text) :
                  IsSpace(text[i]) \/ \E k \in 1..Len(pieces) :
                                         pieces[k].lo <= i /\ i <= pieces[k].hi
            /\ (Len(text) > 0 /\ \A i \in 1..Len(text) : ~IsSpace(text[i])) =>
                  IsWindows(pieces, Len(text))

\* C9, its case: a text longer than a chunk was split into several chunks, one of them
\* ending at white space.
C9_SplitIntoSeveralChunks ==
    /\ program = "split_documents"
    /\ fn_output.fn = "split_documents"
    /\ Len(fn_output.chunks) >= 2
    /\ \E k \in 1..Len(fn_output.pieces) :
          /\ fn_output.pieces[k].hi < Len(fn_input.page_content)
          /\ IsSpace(fn_input.page_content[fn_output.pieces[k].hi + 1])

\* C10: in streamlit_app, after Clear Knowledge Base, retrieve_context never returns a
\* chunk ingested before the clear, also after a new knowledge base is built.
C10_StClearedChunksAreNeverRetrieved ==
    program = "streamlit" => \A d \in response.retrieved : d.id >= clear_mark


\* C13: under every interleaving of upload, retrieval and clear-kb requests, no request
\* calls add_documents, persist or similarity_search on a vector_db that is None.
C13_NoMethodCalledOnNoneHandle ==
    program = "backend" => ~(response.raised /\ response.failure = "AttributeError")

\* the chunks ingest_documents makes of the files of an upload, << >> when a file of
\* it does not parse
ChunksOf(files) ==
    With(upload_files_loop(files, 1, <<>>), LAMBDA documents :
      IF documents.raised THEN <<>>
      ELSE split_documents([k \in 1..Len(documents.value) |->
                               Document(documents.value[k].content,
                                        [source |-> documents.value[k].source])],
                           1, TRUE))

\* C11: the count a backend upload reports is the number of chunks the request added
\* to the store, which are the chunks of its documents under fresh ids and nothing
\* else; an upload whose documents yield no chunk reports 0 and leaves the store and
\* the handle as they were.
C11_UploadReportsTheChunksItAdded ==
    [][(program = "backend" /\ response'.op = "upload" /\ ~response'.raised) =>
          /\ Cardinality(chroma_dir'.docs \ chroma_dir.docs) = response'.count
          /\ \E files \in UploadRequests :
                \E chunks \in {ChunksOf(files)} :
                   /\ Len(chunks) = response'.count
                   /\ Stored(chunks, next_id) \cap chroma_dir.docs = {}
                   /\ chroma_dir'.docs = chroma_dir.docs \cup Stored(chunks, next_id)
          /\ response'.count = 0 => (chroma_dir' = chroma_dir /\ vector_db' = vector_db)]_vars

\* C11, its case: an upload of two files reported two chunks, and the two newest chunks
\* of the store are theirs.
C11_UploadAddedTwoChunks ==
    /\ program = "backend"
    /\ response.op = "upload"
    /\ ~response.raised
    /\ response.count = 2
    /\ \E d1, d2 \in chroma_dir.docs :
          /\ d1.id = next_id - 2
          /\ d2.id = next_id - 1
          /\ d1.metadata.source # d2.metadata.source

\* parse_document fails for a file of the upload
SomeFileFails(files) ==
    \E k \in 1..Len(files) : parse_document(files[k].filename, files[k].content).raised

\* C12: a backend upload in which parse_document fails for a file ends with that
\* exception and leaves the directory, the handle and the store's ids as they were:
\* no chunk of any file of the request is stored, whatever the request and the state
\* of the knowledge base.
C12_UploadThatFailsToParseStoresNothing ==
    /\ [][(program = "backend" /\ response'.op = "upload" /\ response'.raised) =>
             (chroma_dir' = chroma_dir /\ vector_db' = vector_db /\ next_id' = next_id)]_vars
    /\ [](program = "backend" =>
             \A files \in UploadRequests, truth \in StoreTruth(vector_db, chroma_dir) :
                SomeFileFails(files) =>
                   \E out \in {upload_files(files, vector_db, chroma_dir, next_id, truth)} :
                      /\ out.response.raised
                      /\ out.chroma_dir = chroma_dir
                      /\ out.vector_db = vector_db
                      /\ out.next_id = next_id)

\* C12, its case: an upload of a.txt and a .json file that is no JSON failed after
\* a.txt was parsed, and the store holds no chunk of a.txt.
C12_ParsedFileOfFailedUploadNotStored ==
    /\ program = "backend"
    /\ response.op = "upload"
    /\ response.raised
    /\ response.dropped = <<name_a_txt>>
    /\ chroma_dir.exists
    /\ \A d \in chroma_dir.docs : d.metadata.source # name_a_txt

\* a request read a handle that was set, and a retrieval came back empty only from an
\* empty store
ReadHandleWasSet ==
    /\ (response.op = "upload" /\ ~response.raised /\ response.count > 0) =>
           ~response.handle.none
    /\ response.op \in {"generate-test-cases", "generate-script"} =>
           /\ ~response.handle.none
           /\ response.retrieved = {} => chroma_dir.docs = {}

\* C15 as it stands: with requests served one at a time, rag.vector_db is set after
\* construction and after every request, so it is never a store made by
\* Chroma.from_documents, and no retrieval is empty for want of a handle.
C15_FromDocumentsBranchNeverTaken ==
    program = "backend" =>
        /\ ~vector_db.none
        /\ vector_db.opened_by # "ingest_documents"
        /\ ReadHandleWasSet

\* C15, amended: with requests served one at a time, rag.vector_db is set after
\* construction and after every request, and no retrieval is empty for want of a
\* handle; ingest_documents takes its Chroma.from_documents branch only on a store that
\* is set and empty (which is false where the library gives the store a length), and
\* rag.vector_db is then a new handle on the same directory.
C15_HandleIsSetAfterEveryRequest ==
    /\ [](program = "backend" => (~vector_db.none /\ chroma_dir.exists /\ ReadHandleWasSet))
    /\ [][(program = "backend" /\ vector_db' # vector_db
              /\ vector_db'.opened_by = "ingest_documents") =>
             /\ response'.op = "upload"
             /\ ~response'.handle.none
             /\ chroma_dir.docs = {}
             /\ Cardinality(chroma_dir'.docs) = response'.count]_vars

\* C15, its case: an upload found the store set and false, and stored its chunks
\* through Chroma.from_documents.
C15_UploadTookFromDocumentsBranch ==
    /\ program = "backend"
    /\ response.op = "upload"
    /\ response.count > 0
    /\ ~response.handle.none
    /\ response.handle # vector_db
    /\ vector_db.opened_by = "ingest_documents"

\* the answer is that of a generation whose chain.invoke was reached
ChainInvoked(r) ==
    /\ r.op \in {"generate-test-cases", "generate-script"}
    /\ r.failure # "llm_not_configured"

\* C14: in streamlit_app the chain for test cases is invoked only with vector_db and
\* llm set and a knowledge base built since the last clear, and the chain for a script
\* only with test_cases not empty and llm set; Clear Knowledge Base leaves vector_db
\* unset and test_cases empty, only a build sets vector_db again and only a generation
\* of test cases fills test_cases again.
C14_GenerationNeedsKnowledgeBaseAndTestCases ==
    [][program = "streamlit" =>
          /\ (response'.op = "generate-test-cases" /\ ChainInvoked(response')) =>
                 (~st_vector_db.none /\ st_llm # NoneVal /\ next_id > clear_mark)
          /\ (response'.op = "generate-script" /\ ChainInvoked(response')) =>
                 (Truthy(st_test_cases) /\ st_llm # NoneVal)
          /\ response'.op = "clear-kb" =>
                 (st_vector_db'.none /\ ~Truthy(st_test_cases'))
          /\ (st_vector_db.none /\ ~st_vector_db'.none) =>
                 (response'.op = "build" /\ next_id' > next_id)
          /\ (~Truthy(st_test_cases) /\ Truthy(st_test_cases')) =>
                 (response'.op = "generate-test-cases" /\ ChainInvoked(response')
                    /\ ~st_vector_db.none)]_vars

\* C14, its case: after a clear the knowledge base was built again, test cases were
\* generated again and the chain for a script was invoked.
C14_ScriptGeneratedAfterClearAndRebuild ==
    /\ program = "streamlit"
    /\ clear_mark > 1
    /\ next_id > clear_mark
    /\ Truthy(st_test_cases)
    /\ response.op = "generate-script"
    /\ ChainInvoked(response)

=============================================================================
